---- MODULE Spec2Model ----
(***************************************************************************)
(* Model of arrayfire/signal.py: the Python binding of ArrayFire's signal  *)
(* processing entry points.  Every public function resolves its default   *)
(* arguments, marshals them, makes one native call and wraps the result.   *)
(* The state is the array the caller holds and the record of the last      *)
(* public call: what was asked, which native entry point was invoked with  *)
(* which marshalled arguments, and how the call ended.                     *)
(*                                                                         *)
(* Numbers are exact rationals num/den with a flag telling a Python float  *)
(* from a Python int (ctypes' integer types reject floats).  None is the   *)
(* value with den = 0.                                                     *)
(***************************************************************************)
EXTENDS Integers, Sequences, FiniteSets, TLC

VARIABLES signal, last

vars == <<signal, last>>

\* Largest extent of one axis of the arrays the caller builds.
MaxDim == 2

\* Largest coordinate of a grid point, of a query point, and largest filter
\* coefficient.
MaxCoord == 1

\* Largest number of plans the caller asks the plan cache to hold.
MaxCache == 2

\* af.Array carries at most four dimensions (dim4).
MaxRank == 4

----------------------------------------------------------------------------
\* Python values

None == [num |-> 0, den |-> 0, fl |-> FALSE]

PyInt(n) == [num |-> n, den |-> 1, fl |-> FALSE]

RECURSIVE GCD(_, _)
GCD(a, b) == IF b = 0 THEN a ELSE GCD(b, a % b)

PyFloat(n, d) == LET g == GCD(n, d) IN [num |-> n \div g, den |-> d \div g, fl |-> TRUE]

float(v) == [v EXCEPT !.fl = TRUE]

Mul(a, b) ==
    LET n == a.num * b.num
        d == a.den * b.den
        g == GCD(n, d)
    IN  [num |-> n \div g, den |-> d \div g, fl |-> a.fl \/ b.fl]

\* a / b for b # 0 (true division, the result is a float)
Div(a, b) == PyFloat(a.num * b.den, a.den * b.num)

IsZero(v) == v # None /\ v.num = 0

----------------------------------------------------------------------------
\* Arrays

Shapes == [1..MaxRank -> 1..MaxDim]

RECURSIVE numdims(_, _)
numdims(shape, n) == IF n > 1 /\ shape[n] = 1 THEN numdims(shape, n - 1) ELSE n

\* Array.dims(): the extents up to the last non-unit one, as a tuple of ints
dims(arr) == [i \in 1..numdims(arr, MaxRank) |-> PyInt(arr[i])]

\* Python's tuple indexing t[i] (0-based): defined for i < len(t)
InRange(t, i) == i + 1 <= Len(t)

Item(t, i) == t[i + 1]

----------------------------------------------------------------------------
\* Marshalling and the native call

c_dim_t_ok(v) == v # None /\ ~v.fl

c_double_t_ok(v) == v # None

c_double_t(v) == float(v)

\* The record of one native call: entry point, destination ("output": a fresh
\* af.Array handed in by pointer, "signal": the input itself), the signal operand,
\* and the marshalled scalar arguments (-1: not an argument of that entry point).
\* operands are the further array operands and args the further scalar arguments
\* of the entry points of interpolation and filtering, in the order of the call.
NoNative ==
    [fn |-> "", dst |-> "", src |-> <<>>, scale |-> None, lens |-> <<>>,
     is_odd |-> FALSE, kernel |-> <<>>, conv_mode |-> -1, conv_domain |-> -1,
     operands |-> <<>>, args |-> <<>>]

Raise(e) == [native |-> NoNative, exc |-> e, ret |-> ""]

\* A transform entry point af_X(&out, in, scale, len...) or, in place, af_X(in, scale)
af_transform(fn, dst, sig, scale, lens) ==
    IF ~c_double_t_ok(scale) \/ \E i \in 1..Len(lens) : ~c_dim_t_ok(lens[i])
    THEN Raise("TypeError")
    ELSE [native |-> [NoNative EXCEPT !.fn = fn, !.dst = dst, !.src = sig,
                                      !.scale = c_double_t(scale), !.lens = lens],
          exc |-> "",
          ret |-> IF dst = "output" THEN "output" ELSE "None"]

----------------------------------------------------------------------------
\* Inverse transforms

ifft(sig, dim0, scale) ==
    LET d0 == IF dim0 = None THEN Item(dims(sig), 0) ELSE dim0
    IN  IF scale = None /\ IsZero(d0) THEN Raise("ZeroDivisionError")
        ELSE LET s == IF scale = None THEN Div(PyFloat(1, 1), float(d0)) ELSE scale
             IN  af_transform("af_ifft", "output", sig, s, <<d0>>)

ifft2(sig, dim0, dim1, scale) ==
    LET ds == dims(sig)
    IN  IF dim1 = None /\ ~InRange(ds, 1) THEN Raise("IndexError")
        ELSE LET d0 == IF dim0 = None THEN Item(ds, 0) ELSE dim0
                 d1 == IF dim1 = None THEN Item(ds, 1) ELSE dim1
             IN  IF scale = None /\ IsZero(Mul(d0, d1)) THEN Raise("ZeroDivisionError")
                 ELSE LET s == IF scale = None
                               THEN Div(PyFloat(1, 1), float(Mul(d0, d1)))
                               ELSE scale
                      IN  af_transform("af_ifft2", "output", sig, s, <<d0, d1>>)

\* A variant of ifft3 whose default scale is taken from the signal's own
\* extents even when an override is given
ifft3_signal_scale(sig, dim0, dim1, dim2, scale) ==
    LET ds == dims(sig)
    IN  IF \/ dim1 = None /\ ~InRange(ds, 1)
           \/ dim2 = None /\ ~InRange(ds, 2)
        THEN Raise("IndexError")
        ELSE LET d0 == IF dim0 = None THEN Item(ds, 0) ELSE dim0
                 d1 == IF dim1 = None THEN Item(ds, 1) ELSE dim1
                 d2 == IF dim2 = None THEN Item(ds, 2) ELSE dim2
                 n  == Mul(Mul(d0, d1), d2)
             IN  IF scale = None /\ IsZero(n) THEN Raise("ZeroDivisionError")
                 ELSE LET s == IF scale = None
                               THEN Div(PyFloat(1, 1),
                                        float(PyInt(sig[1] * sig[2] * sig[3])))
                               ELSE scale
                      IN  af_transform("af_ifft3", "output", sig, s, <<d0, d1, d2>>)

ifft3(sig, dim0, dim1, dim2, scale) ==
    LET ds == dims(sig)
    IN  IF \/ dim1 = None /\ ~InRange(ds, 1)
           \/ dim2 = None /\ ~InRange(ds, 2)
        THEN Raise("IndexError")
        ELSE LET d0 == IF dim0 = None THEN Item(ds, 0) ELSE dim0
                 d1 == IF dim1 = None THEN Item(ds, 1) ELSE dim1
                 d2 == IF dim2 = None THEN Item(ds, 2) ELSE dim2
                 n  == Mul(Mul(d0, d1), d2)
             IN  IF scale = None /\ IsZero(n) THEN Raise("ZeroDivisionError")
                 ELSE LET s == IF scale = None THEN Div(PyFloat(1, 1), float(n)) ELSE scale
                      IN  af_transform("af_ifft3", "output", sig, s, <<d0, d1, d2>>)

ifft_inplace(sig, scale) ==
    LET dim0 == Item(dims(sig), 0)
        s    == IF scale = None THEN Div(PyFloat(1, 1), float(dim0)) ELSE scale
    IN  af_transform("af_ifft_inplace", "signal", sig, s, <<>>)

\* A variant of ifft2_inplace whose default scale counts the first axis only
ifft2_inplace_first_axis(sig, scale) ==
    LET ds == dims(sig)
    IN  IF scale = None /\ ~InRange(ds, 1) THEN Raise("IndexError")
        ELSE LET s == IF scale = None
                      THEN Div(PyFloat(1, 1), float(Item(ds, 0)))
                      ELSE scale
             IN  af_transform("af_ifft2_inplace", "signal", sig, s, <<>>)

ifft2_inplace(sig, scale) ==
    LET ds == dims(sig)
    IN  IF scale = None /\ ~InRange(ds, 1) THEN Raise("IndexError")
        ELSE LET s == IF scale = None
                      THEN Div(PyFloat(1, 1), float(Mul(Item(ds, 0), Item(ds, 1))))
                      ELSE scale
             IN  af_transform("af_ifft2_inplace", "signal", sig, s, <<>>)

ifft3_inplace(sig, scale) ==
    LET ds == dims(sig)
    IN  IF scale = None /\ ~InRange(ds, 2) THEN Raise("IndexError")
        ELSE LET s == IF scale = None
                      THEN Div(PyFloat(1, 1),
                               float(Mul(Mul(Item(ds, 0), Item(ds, 1)), Item(ds, 2))))
                      ELSE scale
             IN  af_transform("af_ifft3_inplace", "signal", sig, s, <<>>)

----------------------------------------------------------------------------
\* Forward transforms

fft(sig, dim0, scale) ==
    LET d0 == IF dim0 = None THEN PyInt(0) ELSE dim0
        s  == IF scale = None THEN PyFloat(1, 1) ELSE scale
    IN  af_transform("af_fft", "output", sig, s, <<d0>>)

fft2(sig, dim0, dim1, scale) ==
    LET d0 == IF dim0 = None THEN PyInt(0) ELSE dim0
        d1 == IF dim1 = None THEN PyInt(0) ELSE dim1
        s  == IF scale = None THEN PyFloat(1, 1) ELSE scale
    IN  af_transform("af_fft2", "output", sig, s, <<d0, d1>>)

fft3(sig, dim0, dim1, dim2, scale) ==
    LET d0 == IF dim0 = None THEN PyInt(0) ELSE dim0
        d1 == IF dim1 = None THEN PyInt(0) ELSE dim1
        d2 == IF dim2 = None THEN PyInt(0) ELSE dim2
        s  == IF scale = None THEN PyFloat(1, 1) ELSE scale
    IN  af_transform("af_fft3", "output", sig, s, <<d0, d1, d2>>)

fft_inplace(sig, scale) ==
    af_transform("af_fft_inplace", "signal", sig,
                 IF scale = None THEN PyFloat(1, 1) ELSE scale, <<>>)

fft2_inplace(sig, scale) ==
    af_transform("af_fft2_inplace", "signal", sig,
                 IF scale = None THEN PyFloat(1, 1) ELSE scale, <<>>)

\* A variant of fft3_inplace that hands the native call the array it creates
\* and returns it
fft3_inplace_output(sig, scale) ==
    af_transform("af_fft3_inplace", "output", sig,
                 IF scale = None THEN PyFloat(1, 1) ELSE scale, <<>>)

fft3_inplace(sig, scale) ==
    af_transform("af_fft3_inplace", "signal", sig,
                 IF scale = None THEN PyFloat(1, 1) ELSE scale, <<>>)

fft_r2c(sig, dim0, scale) ==
    LET d0 == IF dim0 = None THEN PyInt(0) ELSE dim0
        s  == IF scale = None THEN PyFloat(1, 1) ELSE scale
    IN  af_transform("af_fft_r2c", "output", sig, s, <<d0>>)

\* A variant of fft2_r2c that fills an omitted length in from the signal
fft2_r2c_extents(sig, dim0, dim1, scale) ==
    LET ds == dims(sig)
        d0 == IF dim0 = None THEN Item(ds, 0) ELSE dim0
        d1 == IF dim1 = None THEN PyInt(sig[2]) ELSE dim1
        s  == IF scale = None THEN PyFloat(1, 1) ELSE scale
    IN  af_transform("af_fft2_r2c", "output", sig, s, <<d0, d1>>)

fft2_r2c(sig, dim0, dim1, scale) ==
    LET d0 == IF dim0 = None THEN PyInt(0) ELSE dim0
        d1 == IF dim1 = None THEN PyInt(0) ELSE dim1
        s  == IF scale = None THEN PyFloat(1, 1) ELSE scale
    IN  af_transform("af_fft2_r2c", "output", sig, s, <<d0, d1>>)

fft3_r2c(sig, dim0, dim1, dim2, scale) ==
    LET d0 == IF dim0 = None THEN PyInt(0) ELSE dim0
        d1 == IF dim1 = None THEN PyInt(0) ELSE dim1
        d2 == IF dim2 = None THEN PyInt(0) ELSE dim2
        s  == IF scale = None THEN PyFloat(1, 1) ELSE scale
    IN  af_transform("af_fft3_r2c", "output", sig, s, <<d0, d1, d2>>)

----------------------------------------------------------------------------
\* Complex to real transforms

\* A variant of _get_c2r_dim that ignores is_odd
get_c2r_dim_even(dim, is_odd) == PyInt(2 * (dim.num - 1))

\* 2 * (dim - 1) + int(is_odd)
get_c2r_dim(dim, is_odd) ==
    PyInt(2 * (dim.num - 1) + (IF is_odd THEN 1 ELSE 0))

\* af_X_c2r(&out, in, scale, is_odd)
af_c2r(fn, sig, scale, is_odd) ==
    IF ~c_double_t_ok(scale) THEN Raise("TypeError")
    ELSE [native |-> [NoNative EXCEPT !.fn = fn, !.dst = "output", !.src = sig,
                                      !.scale = c_double_t(scale), !.is_odd = is_odd],
          exc |-> "", ret |-> "output"]

fft_c2r(sig, is_odd, scale) ==
    LET dim0 == get_c2r_dim(Item(dims(sig), 0), is_odd)
    IN  IF scale = None /\ IsZero(dim0) THEN Raise("ZeroDivisionError")
        ELSE af_c2r("af_fft_c2r", sig,
                    IF scale = None THEN Div(PyFloat(1, 1), float(dim0)) ELSE scale,
                    is_odd)

\* A variant of fft2_c2r whose default scale counts the half spectrum
fft2_c2r_half_scale(sig, is_odd, scale) ==
    LET ds == dims(sig)
    IN  IF scale = None /\ ~InRange(ds, 1) THEN Raise("IndexError")
        ELSE LET n == IF scale = None THEN Mul(Item(ds, 0), Item(ds, 1)) ELSE None
             IN  af_c2r("af_fft2_c2r", sig,
                        IF scale = None THEN Div(PyFloat(1, 1), float(n)) ELSE scale,
                        is_odd)

fft2_c2r(sig, is_odd, scale) ==
    LET ds == dims(sig)
    IN  IF scale = None /\ ~InRange(ds, 1) THEN Raise("IndexError")
        ELSE LET dim0 == get_c2r_dim(Item(ds, 0), is_odd)
                 n    == IF scale = None THEN Mul(dim0, Item(ds, 1)) ELSE None
             IN  IF scale = None /\ IsZero(n) THEN Raise("ZeroDivisionError")
                 ELSE af_c2r("af_fft2_c2r", sig,
                             IF scale = None THEN Div(PyFloat(1, 1), float(n)) ELSE scale,
                             is_odd)

fft3_c2r(sig, is_odd, scale) ==
    LET ds == dims(sig)
    IN  IF scale = None /\ ~InRange(ds, 2) THEN Raise("IndexError")
        ELSE LET dim0 == get_c2r_dim(Item(ds, 0), is_odd)
                 n    == IF scale = None
                         THEN Mul(Mul(dim0, Item(ds, 1)), Item(ds, 2))
                         ELSE None
             IN  IF scale = None /\ IsZero(n) THEN Raise("ZeroDivisionError")
                 ELSE af_c2r("af_fft3_c2r", sig,
                             IF scale = None THEN Div(PyFloat(1, 1), float(n)) ELSE scale,
                             is_odd)

----------------------------------------------------------------------------
\* Rank dispatching transforms

\* dim4_to_tuple(dims, default): dims padded to four entries with default
dim4_to_tuple(t, default) == [i \in 1..MaxRank |-> IF i <= Len(t) THEN t[i] ELSE default]

\* A variant of dft that passes the two extents of a 2D signal in reverse order
dft_swapped(sig, odims, scale) ==
    LET odims4 == dim4_to_tuple(odims, None)
        ds     == dims(sig)
        ndims  == Len(ds)
    IN  IF ndims = 1 THEN fft(sig, Item(ds, 0), scale)
        ELSE IF ndims = 2 THEN fft2(sig, Item(ds, 1), Item(ds, 0), scale)
        ELSE fft3(sig, Item(ds, 0), Item(ds, 1), Item(ds, 2), scale)

dft(sig, odims, scale) ==
    LET odims4 == dim4_to_tuple(odims, None)
        ds     == dims(sig)
        ndims  == Len(ds)
    IN  IF ndims = 1 THEN fft(sig, Item(ds, 0), scale)
        ELSE IF ndims = 2 THEN fft2(sig, Item(ds, 0), Item(ds, 1), scale)
        ELSE fft3(sig, Item(ds, 0), Item(ds, 1), Item(ds, 2), scale)

\* The inverse transforms take (signal, dim0, [dim1, [dim2,]] scale); idft passes
\* its arguments positionally as (signal, scale, dims[0], ...).
idft(sig, scale, odims) ==
    LET odims4 == dim4_to_tuple(odims, None)
        ds     == dims(sig)
        ndims  == Len(ds)
    IN  IF ndims = 1 THEN ifft(sig, scale, Item(ds, 0))
        ELSE IF ndims = 2 THEN ifft2(sig, scale, Item(ds, 0), Item(ds, 1))
        ELSE ifft3(sig, scale, Item(ds, 0), Item(ds, 1), Item(ds, 2))

----------------------------------------------------------------------------
\* Convolutions

CONV_MODE == {"DEFAULT", "EXPAND"}

CONV_DOMAIN == {"AUTO", "SPATIAL", "FREQ"}

INTERP == {"NEAREST", "LINEAR"}

PAD == {"ZERO", "SYM"}

\* enum member -> its integer value
value(e) ==
    CASE e = "DEFAULT" -> 0
      [] e = "EXPAND"  -> 1
      [] e = "AUTO"    -> 0
      [] e = "SPATIAL" -> 1
      [] e = "FREQ"    -> 2
      [] e = "NEAREST" -> 0
      [] e = "LINEAR"  -> 1
      [] e = "ZERO"    -> 0
      [] e = "SYM"     -> 1

\* af_convolveN(&out, signal, kernel, mode, domain)
af_conv(fn, sig, kernel, conv_mode, conv_domain) ==
    [native |-> [NoNative EXCEPT !.fn = fn, !.dst = "output", !.src = sig,
                                 !.kernel = kernel, !.conv_mode = value(conv_mode),
                                 !.conv_domain = value(conv_domain)],
     exc |-> "", ret |-> "output"]

\* af_fft_convolveN(&out, signal, kernel, mode)
af_fft_conv(fn, sig, kernel, conv_mode) ==
    [native |-> [NoNative EXCEPT !.fn = fn, !.dst = "output", !.src = sig,
                                 !.kernel = kernel, !.conv_mode = value(conv_mode)],
     exc |-> "", ret |-> "output"]

convolve1(sig, kernel, conv_mode, conv_domain) ==
    af_conv("af_convolve1", sig, kernel, conv_mode, conv_domain)

convolve2(sig, kernel, conv_mode, conv_domain) ==
    af_conv("af_convolve2", sig, kernel, conv_mode, conv_domain)

convolve3(sig, kernel, conv_mode, conv_domain) ==
    af_conv("af_convolve3", sig, kernel, conv_mode, conv_domain)

\* A variant of convolve that dispatches on the kernel's number of dimensions
convolve_by_kernel(sig, kernel, conv_mode, conv_domain) ==
    LET ndims == Len(dims(kernel))
    IN  IF ndims = 1 THEN convolve1(sig, kernel, conv_mode, conv_domain)
        ELSE IF ndims = 2 THEN convolve2(sig, kernel, conv_mode, conv_domain)
        ELSE convolve3(sig, kernel, conv_mode, conv_domain)

convolve(sig, kernel, conv_mode, conv_domain) ==
    LET ndims == Len(dims(sig))
    IN  IF ndims = 1 THEN convolve1(sig, kernel, conv_mode, conv_domain)
        ELSE IF ndims = 2 THEN convolve2(sig, kernel, conv_mode, conv_domain)
        ELSE convolve3(sig, kernel, conv_mode, conv_domain)

fft_convolve1(sig, kernel, conv_mode) ==
    af_fft_conv("af_fft_convolve1", sig, kernel, conv_mode)

\* A variant of fft_convolve2 that leaves the choice of the domain to the library
fft_convolve2_auto(sig, kernel, conv_mode) ==
    af_conv("af_convolve2", sig, kernel, conv_mode, "AUTO")

fft_convolve2(sig, kernel, conv_mode) ==
    af_fft_conv("af_fft_convolve2", sig, kernel, conv_mode)

fft_convolve3(sig, kernel, conv_mode) ==
    af_fft_conv("af_fft_convolve3", sig, kernel, conv_mode)

\* A variant of fft_convolve that knows signals of up to three dimensions only
fft_convolve_upto3(sig, kernel, conv_mode) ==
    LET ndims == Len(dims(sig))
    IN  IF ndims = 1 THEN fft_convolve1(sig, kernel, conv_mode)
        ELSE IF ndims = 2 THEN fft_convolve2(sig, kernel, conv_mode)
        ELSE IF ndims = 3 THEN fft_convolve3(sig, kernel, conv_mode)
        ELSE Raise("ValueError")

fft_convolve(sig, kernel, conv_mode) ==
    LET ndims == Len(dims(sig))
    IN  IF ndims = 1 THEN fft_convolve1(sig, kernel, conv_mode)
        ELSE IF ndims = 2 THEN fft_convolve2(sig, kernel, conv_mode)
        ELSE fft_convolve3(sig, kernel, conv_mode)

----------------------------------------------------------------------------
\* Interpolation
\*
\* A coordinate array is known by its entries at [0,0,0,0], [1,0,0,0] and
\* [0,1,0,0]; an array of query points or of positions is the sequence of its
\* elements.  Coordinates are floating point numbers with integral values.

CoordIndex == {<<0, 0>>, <<1, 0>>, <<0, 1>>}

\* arr[i, j, 0, 0]: the array of that one element
index(arr, i, j) == <<arr[<<i, j>>]>>

\* a - b, element by element
sub(a, b) == [k \in DOMAIN a |-> a[k] - b[k]]

\* sum(arr): the sum of all elements, a scalar
RECURSIVE sum(_)
sum(arr) == IF arr = <<>> THEN 0 ELSE arr[1] + sum(Tail(arr))

Abs(n) == IF n < 0 THEN -n ELSE n

\* The floating point quotient n / d: in lowest terms with a positive
\* denominator; den = 0 stands for the non-finite quotients by zero
\* (num = 1: inf, num = -1: -inf, num = 0: nan)
quotient(n, d) ==
    IF d = 0
    THEN [num |-> IF n > 0 THEN 1 ELSE IF n < 0 THEN -1 ELSE 0, den |-> 0, fl |-> TRUE]
    ELSE LET g == GCD(Abs(n), Abs(d))
             sg == IF d < 0 THEN -1 ELSE 1
         IN  [num |-> (sg * n) \div g, den |-> (sg * d) \div g, fl |-> TRUE]

\* (arr - x) / d with scalars x and d, element by element
rescale(arr, x, d) == [k \in DOMAIN arr |-> quotient(arr[k] - x, d)]

c_float_t(v) == float(v)

approx1(sig, pos0, method, off_grid) ==
    [native |-> [NoNative EXCEPT !.fn = "af_approx1", !.dst = "output", !.src = sig,
                                 !.operands = <<pos0>>,
                                 !.args = <<PyInt(value(method)), c_float_t(off_grid)>>],
     exc |-> "", ret |-> "output"]

approx2(sig, pos0, pos1, method, off_grid) ==
    [native |-> [NoNative EXCEPT !.fn = "af_approx2", !.dst = "output", !.src = sig,
                                 !.operands = <<pos0, pos1>>,
                                 !.args = <<PyInt(value(method)), c_float_t(off_grid)>>],
     exc |-> "", ret |-> "output"]

interp1d(x_interpolated, x_input, signal_input, method, off_grid) ==
    LET dx   == sum(sub(index(x_input, 1, 0), index(x_input, 0, 0)))
        pos0 == rescale(x_interpolated, sum(index(x_input, 0, 0)), dx)
    IN  approx1(signal_input, pos0, method, off_grid)

\* A variant of interp2d that takes the step of y along the first axis
interp2d_same_axis(x_interpolated, x_input, y_interpolated, y_input, signal_input, method, off_grid) ==
    LET dx   == sum(sub(index(x_input, 1, 0), index(x_input, 0, 0)))
        dy   == sum(sub(index(y_input, 1, 0), index(y_input, 0, 0)))
        pos0 == rescale(x_interpolated, sum(index(x_input, 0, 0)), dx)
        pos1 == rescale(y_interpolated, sum(index(y_input, 0, 0)), dy)
    IN  approx2(signal_input, pos0, pos1, method, off_grid)

interp2d(x_interpolated, x_input, y_interpolated, y_input, signal_input, method, off_grid) ==
    LET dx   == sum(sub(index(x_input, 1, 0), index(x_input, 0, 0)))
        dy   == sum(sub(index(y_input, 0, 1), index(y_input, 0, 0)))
        pos0 == rescale(x_interpolated, sum(index(x_input, 0, 0)), dx)
        pos1 == rescale(y_interpolated, sum(index(y_input, 0, 0)), dy)
    IN  approx2(signal_input, pos0, pos1, method, off_grid)

----------------------------------------------------------------------------
\* Separable convolution, filters and the plan cache

convolve2_separable(col_kernel, row_kernel, sig, conv_mode) ==
    [native |-> [NoNative EXCEPT !.fn = "af_convolve2_sep", !.dst = "output", !.src = sig,
                                 !.operands = <<col_kernel, row_kernel>>,
                                 !.conv_mode = value(conv_mode)],
     exc |-> "", ret |-> "output"]

fir(B, X) ==
    [native |-> [NoNative EXCEPT !.fn = "af_fir", !.dst = "output", !.src = X,
                                 !.operands = <<B>>],
     exc |-> "", ret |-> "output"]

iir(B, A, X) ==
    [native |-> [NoNative EXCEPT !.fn = "af_iir", !.dst = "output", !.src = X,
                                 !.operands = <<B, A>>],
     exc |-> "", ret |-> "output"]

\* af_medfilt*(&out, signal, c_dim_t(w)..., edge_pad.value)
af_medfilt(fn, sig, ws, edge_pad) ==
    IF \E i \in 1..Len(ws) : ~c_dim_t_ok(ws[i])
    THEN Raise("TypeError")
    ELSE [native |-> [NoNative EXCEPT !.fn = fn, !.dst = "output", !.src = sig,
                                      !.args = ws \o <<PyInt(value(edge_pad))>>],
          exc |-> "", ret |-> "output"]

medfilt(sig, w0, w1, edge_pad) == af_medfilt("af_medfilt", sig, <<w0, w1>>, edge_pad)

medfilt1(sig, length, edge_pad) == af_medfilt("af_medfilt1", sig, <<length>>, edge_pad)

medfilt2(sig, w0, w1, edge_pad) == af_medfilt("af_medfilt2", sig, <<w0, w1>>, edge_pad)

c_size_t_ok(v) == v # None /\ ~v.fl

\* The only function without an array: nothing is written and nothing returned
set_fft_plan_cache_size(cache_size) ==
    IF ~c_size_t_ok(cache_size) THEN Raise("TypeError")
    ELSE [native |-> [NoNative EXCEPT !.fn = "af_set_fft_plan_cache_size",
                                      !.args = <<cache_size>>],
          exc |-> "", ret |-> "None"]

----------------------------------------------------------------------------
\* The caller's arguments

\* An output length: omitted, 0, or a length no axis of the signal has
DimArgs == {None, PyInt(0), PyInt(MaxDim + 1)}

\* A scale factor: omitted, a Python int, or a Python float
ScaleArgs == {None, PyInt(MaxDim + 2), PyFloat(1, 2)}

\* odims: a tuple of up to four entries, each omitted or given
OdimsArgs == UNION {[1..n -> {None, PyInt(MaxDim + 1)}] : n \in 0..MaxRank}

\* Kernels of every number of dimensions
KernelShapes == {[i \in 1..MaxRank |-> IF i <= k THEN MaxDim ELSE 1] : k \in 0..MaxRank}

\* Coordinates of grid points and of query points
Coords == 0..MaxCoord

CoordArrays == [CoordIndex -> Coords]

Queries == {<<q>> : q \in Coords}

\* Positions handed to approx1 / approx2 directly
Positions == {<<PyFloat(0, 1)>>, <<PyFloat(1, 2)>>}

OffGrid == {PyFloat(0, 1), PyFloat(1, 2)}

\* Filter coefficients; the first one may be 0
Coefficients == [1..2 -> Coords]

\* Window lengths of the median filters
Windows == {PyInt(1), PyInt(3)}

CacheSizes == {PyInt(n) : n \in 0..MaxCache}

\* The status a native call reports
af_err == {"AF_SUCCESS", "AF_ERR"}

NoReq ==
    [op |-> "", dim0 |-> None, dim1 |-> None, dim2 |-> None, scale |-> None,
     is_odd |-> FALSE, odims |-> <<>>, kernel |-> <<>>, conv_mode |-> "",
     conv_domain |-> "",
     pos0 |-> <<>>, pos1 |-> <<>>, method |-> "", off_grid |-> None,
     x_interpolated |-> <<>>, x_input |-> <<>>,
     y_interpolated |-> <<>>, y_input |-> <<>>,
     col_kernel |-> <<>>, row_kernel |-> <<>>, B |-> <<>>, A |-> <<>>,
     w0 |-> None, w1 |-> None, length |-> None, edge_pad |-> "",
     cache_size |-> None]

\* safe_call(status): raises unless the native call reported success
safe_call(err) == IF err = "AF_SUCCESS" THEN "" ELSE "RuntimeError"

\* A variant of Done that does not look at the status of the native call
Done_unchecked(req, r, err) ==
    LET made == r.native.fn # ""
    IN  [req     |-> req,
         native  |-> r.native,
         status  |-> IF made THEN err ELSE "",
         trace   |-> IF made THEN <<r.native.fn>> ELSE <<>>,
         outcome |-> IF r.exc # "" THEN r.exc ELSE "returned",
         ret     |-> IF r.exc # "" THEN "" ELSE r.ret]

\* A variant of Done that falls back to a second native call when the first
\* one reports a failure, and returns the output of the second
Done_fallback(req, r, err) ==
    LET made == r.native.fn # ""
    IN  [req     |-> req,
         native  |-> r.native,
         status  |-> IF made THEN err ELSE "",
         trace   |-> IF ~made THEN <<>>
                     ELSE IF err = "AF_SUCCESS" THEN <<r.native.fn>>
                     ELSE <<r.native.fn, r.native.fn>>,
         outcome |-> IF r.exc # "" THEN r.exc ELSE "returned",
         ret     |-> IF r.exc # "" THEN "" ELSE r.ret]

\* The outcome of a public call whose body evaluated to r and whose native call,
\* if it was made, reported err.  status is the status the native call reported
\* and trace the native signal-processing entry points invoked, in order.
Done(req, r, err) ==
    LET made == r.native.fn # ""
        exc  == IF r.exc # "" THEN r.exc ELSE safe_call(err)
    IN  [req     |-> req,
         native  |-> r.native,
         status  |-> IF made THEN err ELSE "",
         trace   |-> IF made THEN <<r.native.fn>> ELSE <<>>,
         outcome |-> IF exc = "" THEN "returned" ELSE exc,
         ret     |-> IF exc = "" THEN r.ret ELSE ""]

NoCall ==
    [req |-> NoReq, native |-> NoNative, status |-> "", trace |-> <<>>,
     outcome |-> "", ret |-> ""]

Init ==
    /\ signal \in Shapes
    /\ last = NoCall

----------------------------------------------------------------------------
\* One action per public function

Ifft ==
    \E dim0 \in DimArgs, scale \in ScaleArgs, err \in af_err :
        /\ last' = Done([NoReq EXCEPT !.op = "ifft", !.dim0 = dim0, !.scale = scale],
                        ifft(signal, dim0, scale), err)
        /\ UNCHANGED signal

Ifft2 ==
    \E dim0 \in DimArgs, dim1 \in DimArgs, scale \in ScaleArgs, err \in af_err :
        /\ last' = Done([NoReq EXCEPT !.op = "ifft2", !.dim0 = dim0, !.dim1 = dim1, !.scale = scale],
                        ifft2(signal, dim0, dim1, scale), err)
        /\ UNCHANGED signal

Ifft3 ==
    \E dim0 \in DimArgs, dim1 \in DimArgs, dim2 \in DimArgs, scale \in ScaleArgs, err \in af_err :
        /\ last' = Done([NoReq EXCEPT !.op = "ifft3", !.dim0 = dim0, !.dim1 = dim1, !.dim2 = dim2, !.scale = scale],
                        ifft3(signal, dim0, dim1, dim2, scale), err)
        /\ UNCHANGED signal

IfftInplace ==
    \E scale \in ScaleArgs, err \in af_err :
        /\ last' = Done([NoReq EXCEPT !.op = "ifft_inplace", !.scale = scale],
                        ifft_inplace(signal, scale), err)
        /\ UNCHANGED signal

Ifft2Inplace ==
    \E scale \in ScaleArgs, err \in af_err :
        /\ last' = Done([NoReq EXCEPT !.op = "ifft2_inplace", !.scale = scale],
                        ifft2_inplace(signal, scale), err)
        /\ UNCHANGED signal

Ifft3Inplace ==
    \E scale \in ScaleArgs, err \in af_err :
        /\ last' = Done([NoReq EXCEPT !.op = "ifft3_inplace", !.scale = scale],
                        ifft3_inplace(signal, scale), err)
        /\ UNCHANGED signal

Fft ==
    \E dim0 \in DimArgs, scale \in ScaleArgs, err \in af_err :
        /\ last' = Done([NoReq EXCEPT !.op = "fft", !.dim0 = dim0, !.scale = scale],
                        fft(signal, dim0, scale), err)
        /\ UNCHANGED signal

Fft2 ==
    \E dim0 \in DimArgs, dim1 \in DimArgs, scale \in ScaleArgs, err \in af_err :
        /\ last' = Done([NoReq EXCEPT !.op = "fft2", !.dim0 = dim0, !.dim1 = dim1, !.scale = scale],
                        fft2(signal, dim0, dim1, scale), err)
        /\ UNCHANGED signal

Fft3 ==
    \E dim0 \in DimArgs, dim1 \in DimArgs, dim2 \in DimArgs, scale \in ScaleArgs, err \in af_err :
        /\ last' = Done([NoReq EXCEPT !.op = "fft3", !.dim0 = dim0, !.dim1 = dim1, !.dim2 = dim2, !.scale = scale],
                        fft3(signal, dim0, dim1, dim2, scale), err)
        /\ UNCHANGED signal

FftInplace ==
    \E scale \in ScaleArgs, err \in af_err :
        /\ last' = Done([NoReq EXCEPT !.op = "fft_inplace", !.scale = scale],
                        fft_inplace(signal, scale), err)
        /\ UNCHANGED signal

Fft2Inplace ==
    \E scale \in ScaleArgs, err \in af_err :
        /\ last' = Done([NoReq EXCEPT !.op = "fft2_inplace", !.scale = scale],
                        fft2_inplace(signal, scale), err)
        /\ UNCHANGED signal

Fft3Inplace ==
    \E scale \in ScaleArgs, err \in af_err :
        /\ last' = Done([NoReq EXCEPT !.op = "fft3_inplace", !.scale = scale],
                        fft3_inplace(signal, scale), err)
        /\ UNCHANGED signal

FftR2c ==
    \E dim0 \in DimArgs, scale \in ScaleArgs, err \in af_err :
        /\ last' = Done([NoReq EXCEPT !.op = "fft_r2c", !.dim0 = dim0, !.scale = scale],
                        fft_r2c(signal, dim0, scale), err)
        /\ UNCHANGED signal

Fft2R2c ==
    \E dim0 \in DimArgs, dim1 \in DimArgs, scale \in ScaleArgs, err \in af_err :
        /\ last' = Done([NoReq EXCEPT !.op = "fft2_r2c", !.dim0 = dim0, !.dim1 = dim1, !.scale = scale],
                        fft2_r2c(signal, dim0, dim1, scale), err)
        /\ UNCHANGED signal

Fft3R2c ==
    \E dim0 \in DimArgs, dim1 \in DimArgs, dim2 \in DimArgs, scale \in ScaleArgs, err \in af_err :
        /\ last' = Done([NoReq EXCEPT !.op = "fft3_r2c", !.dim0 = dim0, !.dim1 = dim1, !.dim2 = dim2, !.scale = scale],
                        fft3_r2c(signal, dim0, dim1, dim2, scale), err)
        /\ UNCHANGED signal

FftC2r ==
    \E is_odd \in BOOLEAN, scale \in ScaleArgs, err \in af_err :
        /\ last' = Done([NoReq EXCEPT !.op = "fft_c2r", !.is_odd = is_odd, !.scale = scale],
                        fft_c2r(signal, is_odd, scale), err)
        /\ UNCHANGED signal

Fft2C2r ==
    \E is_odd \in BOOLEAN, scale \in ScaleArgs, err \in af_err :
        /\ last' = Done([NoReq EXCEPT !.op = "fft2_c2r", !.is_odd = is_odd, !.scale = scale],
                        fft2_c2r(signal, is_odd, scale), err)
        /\ UNCHANGED signal

Fft3C2r ==
    \E is_odd \in BOOLEAN, scale \in ScaleArgs, err \in af_err :
        /\ last' = Done([NoReq EXCEPT !.op = "fft3_c2r", !.is_odd = is_odd, !.scale = scale],
                        fft3_c2r(signal, is_odd, scale), err)
        /\ UNCHANGED signal

Dft ==
    \E odims \in OdimsArgs, scale \in ScaleArgs, err \in af_err :
        /\ last' = Done([NoReq EXCEPT !.op = "dft", !.odims = odims, !.scale = scale],
                        dft(signal, odims, scale), err)
        /\ UNCHANGED signal

Idft ==
    \E scale \in ScaleArgs, odims \in OdimsArgs, err \in af_err :
        /\ last' = Done([NoReq EXCEPT !.op = "idft", !.scale = scale, !.odims = odims],
                        idft(signal, scale, odims), err)
        /\ UNCHANGED signal

Convolve1 ==
    \E kernel \in KernelShapes, conv_mode \in CONV_MODE, conv_domain \in CONV_DOMAIN, err \in af_err :
        /\ last' = Done([NoReq EXCEPT !.op = "convolve1", !.kernel = kernel, !.conv_mode = conv_mode, !.conv_domain = conv_domain],
                        convolve1(signal, kernel, conv_mode, conv_domain), err)
        /\ UNCHANGED signal

Convolve2 ==
    \E kernel \in KernelShapes, conv_mode \in CONV_MODE, conv_domain \in CONV_DOMAIN, err \in af_err :
        /\ last' = Done([NoReq EXCEPT !.op = "convolve2", !.kernel = kernel, !.conv_mode = conv_mode, !.conv_domain = conv_domain],
                        convolve2(signal, kernel, conv_mode, conv_domain), err)
        /\ UNCHANGED signal

Convolve3 ==
    \E kernel \in KernelShapes, conv_mode \in CONV_MODE, conv_domain \in CONV_DOMAIN, err \in af_err :
        /\ last' = Done([NoReq EXCEPT !.op = "convolve3", !.kernel = kernel, !.conv_mode = conv_mode, !.conv_domain = conv_domain],
                        convolve3(signal, kernel, conv_mode, conv_domain), err)
        /\ UNCHANGED signal

Convolve ==
    \E kernel \in KernelShapes, conv_mode \in CONV_MODE, conv_domain \in CONV_DOMAIN, err \in af_err :
        /\ last' = Done([NoReq EXCEPT !.op = "convolve", !.kernel = kernel, !.conv_mode = conv_mode, !.conv_domain = conv_domain],
                        convolve(signal, kernel, conv_mode, conv_domain), err)
        /\ UNCHANGED signal

FftConvolve1 ==
    \E kernel \in KernelShapes, conv_mode \in CONV_MODE, err \in af_err :
        /\ last' = Done([NoReq EXCEPT !.op = "fft_convolve1", !.kernel = kernel, !.conv_mode = conv_mode],
                        fft_convolve1(signal, kernel, conv_mode), err)
        /\ UNCHANGED signal

FftConvolve2 ==
    \E kernel \in KernelShapes, conv_mode \in CONV_MODE, err \in af_err :
        /\ last' = Done([NoReq EXCEPT !.op = "fft_convolve2", !.kernel = kernel, !.conv_mode = conv_mode],
                        fft_convolve2(signal, kernel, conv_mode), err)
        /\ UNCHANGED signal

FftConvolve3 ==
    \E kernel \in KernelShapes, conv_mode \in CONV_MODE, err \in af_err :
        /\ last' = Done([NoReq EXCEPT !.op = "fft_convolve3", !.kernel = kernel, !.conv_mode = conv_mode],
                        fft_convolve3(signal, kernel, conv_mode), err)
        /\ UNCHANGED signal

FftConvolve ==
    \E kernel \in KernelShapes, conv_mode \in CONV_MODE, err \in af_err :
        /\ last' = Done([NoReq EXCEPT !.op = "fft_convolve", !.kernel = kernel, !.conv_mode = conv_mode],
                        fft_convolve(signal, kernel, conv_mode), err)
        /\ UNCHANGED signal

Approx1 ==
    \E pos0 \in Positions, method \in INTERP, off_grid \in OffGrid, err \in af_err :
        /\ last' = Done([NoReq EXCEPT !.op = "approx1", !.pos0 = pos0, !.method = method,
                                      !.off_grid = off_grid],
                        approx1(signal, pos0, method, off_grid), err)
        /\ UNCHANGED signal

Approx2 ==
    \E pos0 \in Positions, pos1 \in Positions, method \in INTERP, off_grid \in OffGrid,
       err \in af_err :
        /\ last' = Done([NoReq EXCEPT !.op = "approx2", !.pos0 = pos0, !.pos1 = pos1,
                                      !.method = method, !.off_grid = off_grid],
                        approx2(signal, pos0, pos1, method, off_grid), err)
        /\ UNCHANGED signal

Interp1d ==
    \E x_interpolated \in Queries, x_input \in CoordArrays, method \in INTERP,
       off_grid \in OffGrid, err \in af_err :
        /\ last' = Done([NoReq EXCEPT !.op = "interp1d", !.x_interpolated = x_interpolated,
                                      !.x_input = x_input, !.method = method,
                                      !.off_grid = off_grid],
                        interp1d(x_interpolated, x_input, signal, method, off_grid), err)
        /\ UNCHANGED signal

Interp2d ==
    \E x_interpolated \in Queries, x_input \in CoordArrays,
       y_interpolated \in Queries, y_input \in CoordArrays,
       method \in INTERP, off_grid \in OffGrid, err \in af_err :
        /\ last' = Done([NoReq EXCEPT !.op = "interp2d", !.x_interpolated = x_interpolated,
                                      !.x_input = x_input, !.y_interpolated = y_interpolated,
                                      !.y_input = y_input, !.method = method,
                                      !.off_grid = off_grid],
                        interp2d(x_interpolated, x_input, y_interpolated, y_input, signal,
                                 method, off_grid), err)
        /\ UNCHANGED signal

Convolve2Separable ==
    \E col_kernel \in KernelShapes, row_kernel \in KernelShapes, conv_mode \in CONV_MODE,
       err \in af_err :
        /\ last' = Done([NoReq EXCEPT !.op = "convolve2_separable", !.col_kernel = col_kernel,
                                      !.row_kernel = row_kernel, !.conv_mode = conv_mode],
                        convolve2_separable(col_kernel, row_kernel, signal, conv_mode), err)
        /\ UNCHANGED signal

Fir ==
    \E B \in Coefficients, err \in af_err :
        /\ last' = Done([NoReq EXCEPT !.op = "fir", !.B = B], fir(B, signal), err)
        /\ UNCHANGED signal

Iir ==
    \E B \in Coefficients, A \in Coefficients, err \in af_err :
        /\ last' = Done([NoReq EXCEPT !.op = "iir", !.B = B, !.A = A], iir(B, A, signal), err)
        /\ UNCHANGED signal

Medfilt ==
    \E w0 \in Windows, w1 \in Windows, edge_pad \in PAD, err \in af_err :
        /\ last' = Done([NoReq EXCEPT !.op = "medfilt", !.w0 = w0, !.w1 = w1,
                                      !.edge_pad = edge_pad],
                        medfilt(signal, w0, w1, edge_pad), err)
        /\ UNCHANGED signal

Medfilt1 ==
    \E length \in Windows, edge_pad \in PAD, err \in af_err :
        /\ last' = Done([NoReq EXCEPT !.op = "medfilt1", !.length = length,
                                      !.edge_pad = edge_pad],
                        medfilt1(signal, length, edge_pad), err)
        /\ UNCHANGED signal

Medfilt2 ==
    \E w0 \in Windows, w1 \in Windows, edge_pad \in PAD, err \in af_err :
        /\ last' = Done([NoReq EXCEPT !.op = "medfilt2", !.w0 = w0, !.w1 = w1,
                                      !.edge_pad = edge_pad],
                        medfilt2(signal, w0, w1, edge_pad), err)
        /\ UNCHANGED signal

SetFftPlanCacheSize ==
    \E cache_size \in CacheSizes, err \in af_err :
        /\ last' = Done([NoReq EXCEPT !.op = "set_fft_plan_cache_size",
                                      !.cache_size = cache_size],
                        set_fft_plan_cache_size(cache_size), err)
        /\ UNCHANGED signal

\* The rank dispatching transforms
NextDispatch ==
    \/ Dft
    \/ Idft

\* The inverse complex transforms, out of place and in place
NextInverse ==
    \/ Ifft
    \/ Ifft2
    \/ Ifft3
    \/ IfftInplace
    \/ Ifft2Inplace
    \/ Ifft3Inplace

\* The forward and inverse complex transforms, out of place and in place
NextTransform ==
    \/ Fft
    \/ Fft2
    \/ Fft3
    \/ FftInplace
    \/ Fft2Inplace
    \/ Fft3Inplace
    \/ NextInverse

\* The real to complex transforms and their inverses
NextHalf ==
    \/ FftR2c
    \/ Fft2R2c
    \/ Fft3R2c
    \/ FftC2r
    \/ Fft2C2r
    \/ Fft3C2r

\* The convolutions
NextConvolve ==
    \/ Convolve1
    \/ Convolve2
    \/ Convolve3
    \/ Convolve
    \/ FftConvolve1
    \/ FftConvolve2
    \/ FftConvolve3
    \/ FftConvolve

\* Interpolation
NextInterp ==
    \/ Approx1
    \/ Approx2
    \/ Interp1d
    \/ Interp2d

\* Separable convolution, filters and the plan cache
NextFilter ==
    \/ Convolve2Separable
    \/ Fir
    \/ Iir
    \/ Medfilt
    \/ Medfilt1
    \/ Medfilt2
    \/ SetFftPlanCacheSize

Next ==
    \/ NextDispatch
    \/ NextTransform
    \/ NextHalf
    \/ NextConvolve
    \/ NextInterp
    \/ NextFilter

Spec == Init /\ [][Next]_vars

\* No function keeps anything from one call to the next, so what a call does
\* is what the first call of a session does: the program with the caller
\* observed over one call of any public function
SpecCall == Init /\ [][last = NoCall /\ Next]_vars

SpecInterp == Init /\ [][last = NoCall /\ NextInterp]_vars

\* The same program with the caller restricted to one family of functions
SpecDispatch == Init /\ [][NextDispatch]_vars

SpecTransform == Init /\ [][NextTransform]_vars

SpecInverse == Init /\ [][NextInverse]_vars

SpecHalf == Init /\ [][NextHalf]_vars

SpecConvolve == Init /\ [][NextConvolve]_vars

----------------------------------------------------------------------------
\* Vocabulary of the properties

\* Number of dimensions of the signal, as Array.dims() reports it
NDims == Len(dims(signal))

\* Product of the first k extents of the signal
RECURSIVE Elements(_)
Elements(k) == IF k = 0 THEN 1 ELSE signal[k] * Elements(k - 1)

\* The numbers a and b are equal as numbers (an int equals the float of it)
SameNumber(a, b) == a # None /\ b # None /\ a.num = b.num /\ a.den = b.den

Called == last.native.fn # ""

InverseEntry(k) ==
    CASE k = 1 -> "af_ifft"
      [] k = 2 -> "af_ifft2"
      [] k = 3 -> "af_ifft3"

InverseOp(k) ==
    CASE k = 1 -> "ifft"
      [] k = 2 -> "ifft2"
      [] k = 3 -> "ifft3"

ForwardEntry(k) ==
    CASE k = 1 -> "af_fft"
      [] k = 2 -> "af_fft2"
      [] k = 3 -> "af_fft3"

----------------------------------------------------------------------------
\* C1: idft with scale omitted runs the inverse transform of a signal of 1, 2
\* or 3 dimensions with scale 1 / (number of elements of the signal).
C1_IdftDefaultScale ==
    (last.req.op = "idft" /\ last.req.scale = None /\ NDims <= 3)
        => /\ Called
           /\ SameNumber(last.native.scale, PyFloat(1, Elements(NDims)))

\* C2: idft of a signal of 1, 2 or 3 dimensions calls ifft / ifft2 / ifft3
\* according to the number of dimensions and requests, for every transformed
\* axis i, the output length dims[i].
C2_IdftLengths ==
    (last.req.op = "idft" /\ NDims <= 3 /\ Called)
        => /\ last.native.fn = InverseEntry(NDims)
           /\ last.native.lens = dims(signal)

\* C3: an explicit scale s passed to idft reaches the inverse transform as the
\* scale factor s, and the output lengths requested are those requested when
\* scale is omitted.
C3_IdftExplicitScale ==
    (last.req.op = "idft" /\ last.req.scale # None /\ Called)
        => /\ SameNumber(last.native.scale, last.req.scale)
           /\ last.native.lens = idft(signal, None, last.req.odims).native.lens

\* The public call r left every optional argument out
AllDefaults(r) ==
    /\ r.req.dim0 = None
    /\ r.req.dim1 = None
    /\ r.req.dim2 = None
    /\ r.req.scale = None

ForwardOps(k) ==
    CASE k = 1 -> {"fft", "fft_inplace"}
      [] k = 2 -> {"fft2", "fft2_inplace"}
      [] k = 3 -> {"fft3", "fft3_inplace"}

InverseOps(k) ==
    CASE k = 1 -> {"ifft", "ifft_inplace"}
      [] k = 2 -> {"ifft2", "ifft2_inplace"}
      [] k = 3 -> {"ifft3", "ifft3_inplace"}

InverseEntries(k) ==
    CASE k = 1 -> {"af_ifft", "af_ifft_inplace"}
      [] k = 2 -> {"af_ifft2", "af_ifft2_inplace"}
      [] k = 3 -> {"af_ifft3", "af_ifft3_inplace"}

Override(i) ==
    CASE i = 1 -> last.req.dim0
      [] i = 2 -> last.req.dim1
      [] i = 3 -> last.req.dim2

\* The resolved output length of axis i: the override when given, the
\* signal's extent otherwise
Resolved(i) == IF Override(i) # None THEN Override(i).num ELSE signal[i]

RECURSIVE ResolvedProduct(_)
ResolvedProduct(k) == IF k = 0 THEN 1 ELSE Resolved(k) * ResolvedProduct(k - 1)

C2rOp(k) ==
    CASE k = 1 -> "fft_c2r"
      [] k = 2 -> "fft2_c2r"
      [] k = 3 -> "fft3_c2r"

C2rEntry(k) ==
    CASE k = 1 -> "af_fft_c2r"
      [] k = 2 -> "af_fft2_c2r"
      [] k = 3 -> "af_fft3_c2r"

\* The length of the first output axis of a complex to real transform of the
\* signal: 2 * (n - 1), plus one when is_odd
FullLength == 2 * (signal[1] - 1) + (IF last.req.is_odd THEN 1 ELSE 0)

\* ... times the remaining transformed extents of the signal
RECURSIVE FullElements(_)
FullElements(k) == IF k = 1 THEN FullLength ELSE signal[k] * FullElements(k - 1)

HalfLength(n) == (n \div 2) + 1

NoOdims == \A i \in 1..Len(last.req.odims) : last.req.odims[i] = None

\* C8: dft without odims, on a signal of 1, 2 or 3 dimensions, calls fft /
\* fft2 / fft3 according to the number of dimensions, with output length
\* dims[i] on every transformed axis i and the caller's scale, 1.0 when omitted.
C8_DftDispatch ==
    (last.req.op = "dft" /\ NoOdims /\ NDims <= 3)
        => /\ last.native.fn = ForwardEntry(NDims)
           /\ last.native.lens = dims(signal)
           /\ last.native.src = signal
           /\ SameNumber(last.native.scale,
                         IF last.req.scale = None THEN PyFloat(1, 1) ELSE last.req.scale)

\* dft of a non-square 2D signal with an explicit scale
C8_Witness ==
    /\ last.req.op = "dft"
    /\ NoOdims
    /\ NDims = 2
    /\ signal[1] # signal[2]
    /\ last.req.scale = PyFloat(1, 2)
    /\ last.outcome = "returned"
    /\ last.native.fn = "af_fft2"
    /\ last.native.lens = <<PyInt(signal[1]), PyInt(signal[2])>>

\* C9: the integer entries of the odims argument of dft and idft are the output
\* lengths of the transform; only the None entries are replaced by the
\* corresponding dimension of the signal.
C9_OdimsUsed ==
    (last.req.op \in {"dft", "idft"} /\ NDims <= 3 /\ Called)
        => \A i \in 1..NDims :
                  last.native.lens[i] =
                      IF i <= Len(last.req.odims) /\ last.req.odims[i] # None
                      THEN last.req.odims[i]
                      ELSE PyInt(signal[i])

ConvEntry(k) ==
    CASE k = 1 -> "af_convolve1"
      [] k = 2 -> "af_convolve2"
      [] k = 3 -> "af_convolve3"

FftConvEntry(k) ==
    CASE k = 1 -> "af_fft_convolve1"
      [] k = 2 -> "af_fft_convolve2"
      [] k = 3 -> "af_fft_convolve3"

\* C10: on a signal of 1, 2 or 3 dimensions convolve calls exactly convolve1 /
\* convolve2 / convolve3 and fft_convolve exactly fft_convolve1 / 2 / 3, chosen
\* by the number of dimensions of the signal alone, whatever the kernel, and
\* signal, kernel, mode (and domain, for convolve) are forwarded unchanged.
C10_ConvolveDispatch ==
    /\ (last.req.op = "convolve" /\ NDims <= 3)
           => /\ last.native.fn = ConvEntry(NDims)
              /\ last.native.src = signal
              /\ last.native.kernel = last.req.kernel
              /\ last.native.conv_mode = value(last.req.conv_mode)
              /\ last.native.conv_domain = value(last.req.conv_domain)
    /\ (last.req.op = "fft_convolve" /\ NDims <= 3)
           => /\ last.native.fn = FftConvEntry(NDims)
              /\ last.native.src = signal
              /\ last.native.kernel = last.req.kernel
              /\ last.native.conv_mode = value(last.req.conv_mode)
              /\ last.native.conv_domain = -1

\* convolve of a 1D signal with a kernel of three dimensions
C10_Witness ==
    /\ last.req.op = "convolve"
    /\ NDims = 1
    /\ numdims(last.req.kernel, MaxRank) = 3
    /\ last.req.conv_mode = "EXPAND"
    /\ last.req.conv_domain = "SPATIAL"
    /\ last.native.fn = "af_convolve1"
    /\ last.outcome = "returned"

FftConvOps == {"fft_convolve1", "fft_convolve2", "fft_convolve3", "fft_convolve"}

\* C11: fft_convolve1, fft_convolve2, fft_convolve3 and fft_convolve take no
\* domain argument, and whatever their arguments the native entry point they
\* call is a frequency-domain one (af_fft_convolve1 / 2 / 3), called without a
\* domain: never a spatial-domain or AUTO-selecting convolution entry point.
C11_FftConvolveFrequencyOnly ==
    last.req.op \in FftConvOps
        => /\ last.req.conv_domain = ""
           /\ last.native.fn \in {FftConvEntry(k) : k \in 1..3}
           /\ last.native.fn \notin {ConvEntry(k) : k \in 1..3}
           /\ last.native.conv_domain = -1

\* fft_convolve2 of a signal with a kernel, in EXPAND mode
C11_Witness ==
    /\ last.req.op = "fft_convolve2"
    /\ last.req.conv_mode = "EXPAND"
    /\ numdims(last.req.kernel, MaxRank) = 2
    /\ last.native.fn = "af_fft_convolve2"
    /\ last.outcome = "returned"

InPlaceOps ==
    {"fft_inplace", "fft2_inplace", "fft3_inplace",
     "ifft_inplace", "ifft2_inplace", "ifft3_inplace"}

\* The functions that hand an output array back
OutOfPlaceOps ==
    {"approx1", "approx2", "interp1d", "interp2d",
     "fft", "fft2", "fft3", "ifft", "ifft2", "ifft3",
     "fft_r2c", "fft2_r2c", "fft3_r2c", "fft_c2r", "fft2_c2r", "fft3_c2r",
     "dft", "idft",
     "convolve1", "convolve2", "convolve2_separable", "convolve3", "convolve",
     "fft_convolve1", "fft_convolve2", "fft_convolve3", "fft_convolve",
     "fir", "iir", "medfilt", "medfilt1", "medfilt2"}

\* The exceptions a function raises while it resolves and marshals its arguments
EarlyErrors == {"ZeroDivisionError", "IndexError", "TypeError"}

\* C12 as stated: a call of an out-of-place function either succeeds and returns
\* an output array, or its native call reports a failure status and the call
\* raises without returning an output array.
C12_SucceedsOrNativeFailure ==
    last.req.op \in OutOfPlaceOps
        => \/ /\ last.status = "AF_SUCCESS"
              /\ last.outcome = "returned"
              /\ last.ret = "output"
           \/ /\ last.status = "AF_ERR"
              /\ last.outcome # "returned"
              /\ last.ret = ""

\* C12, amended: a call of an out-of-place function ends in one of three ways:
\* the native call reports success and the call returns the output array; the
\* native call reports a failure and the call raises RuntimeError; or the call
\* raises while resolving its arguments, before any native call.  A call that
\* raises returns no output array: no failing call hands back an output.
C12_OutputOnlyOnSuccess ==
    last.req.op \in OutOfPlaceOps
        => \/ /\ last.status = "AF_SUCCESS"
              /\ last.outcome = "returned"
              /\ last.ret = "output"
           \/ /\ last.status = "AF_ERR"
              /\ last.outcome = "RuntimeError"
              /\ last.ret = ""
           \/ /\ last.status = ""
              /\ last.trace = <<>>
              /\ last.outcome \in EarlyErrors
              /\ last.ret = ""

\* iir whose native call reports a failure: the call raises, nothing is returned
C12_Witness ==
    /\ last.req.op = "iir"
    /\ last.native.fn = "af_iir"
    /\ last.status = "AF_ERR"
    /\ last.outcome = "RuntimeError"
    /\ last.ret = ""

\* C13 as stated: every call of a public function results in exactly one call
\* of a native entry point, and a failure that call reports is raised to the
\* caller at once.
C13_ExactlyOneNativeCall ==
    last.req.op # ""
        => /\ Len(last.trace) = 1
           /\ last.status = "AF_ERR" => (last.outcome = "RuntimeError" /\ last.ret = "")

\* C13, amended: every call of a public function makes at most one call of a
\* native signal-processing entry point: none when the call raises while
\* resolving or marshalling its arguments, exactly one otherwise (for interp1d
\* af_approx1, for interp2d af_approx2, for the rank dispatchers the entry point
\* of the function they delegate to).  A failure that call reports is raised
\* as RuntimeError and nothing is returned; no second native call follows.
C13_AtMostOneNativeCall ==
    last.req.op # ""
        => /\ Len(last.trace) <= 1
           /\ last.trace = <<>> <=> last.outcome \in EarlyErrors
           /\ last.trace # <<>> => last.trace = <<last.native.fn>>
           /\ last.status = "AF_ERR" => (last.outcome = "RuntimeError" /\ last.ret = "")
           /\ (last.req.op = "interp1d" /\ Called) => last.native.fn = "af_approx1"
           /\ (last.req.op = "interp2d" /\ Called) => last.native.fn = "af_approx2"
           /\ (last.req.op = "dft" /\ Called)
                  => last.native.fn \in {ForwardEntry(k) : k \in 1..3}
           /\ (last.req.op = "idft" /\ Called)
                  => last.native.fn \in {InverseEntry(k) : k \in 1..3}
           /\ (last.req.op = "convolve" /\ Called)
                  => last.native.fn \in {ConvEntry(k) : k \in 1..3}
           /\ (last.req.op = "fft_convolve" /\ Called)
                  => last.native.fn \in {FftConvEntry(k) : k \in 1..3}

\* interp1d whose one native call, af_approx1, reports a failure
C13_Witness ==
    /\ last.req.op = "interp1d"
    /\ last.trace = <<"af_approx1">>
    /\ last.status = "AF_ERR"
    /\ last.outcome = "RuntimeError"

\* The transforms over two or three axes
Rank2Ops == {"fft2", "ifft2", "fft2_inplace", "ifft2_inplace", "fft2_r2c", "fft2_c2r"}

Rank3Ops == {"fft3", "ifft3", "fft3_inplace", "ifft3_inplace", "fft3_r2c", "fft3_c2r"}

\* A transform over two or three axes asked of a signal of one dimension
RankMismatch == last.req.op \in Rank2Ops \cup Rank3Ops /\ NDims = 1

\* C14, for the calls that fail: a transform over two or three axes asked of a
\* signal of one dimension fails with the dimension error of the transform,
\* that is with the failure its native call reports, and with no other kind of
\* error.
C14_RankMismatchError ==
    (RankMismatch /\ last.outcome # "returned")
        => (last.status = "AF_ERR" /\ last.outcome = "RuntimeError")

\* C17: the native call of every out-of-place function writes to a newly
\* created output array, takes the caller's arrays as operands only, and that
\* output array is what the function returns; the native call of the six
\* in-place transforms, and of no other function, has the input array as its
\* destination, and these return None.
C17_Destinations ==
    Called
        => /\ last.req.op \in OutOfPlaceOps
                  => /\ last.native.dst = "output"
                     /\ last.native.src = signal
                     /\ last.outcome = "returned" => last.ret = "output"
           /\ last.req.op \in InPlaceOps
                  => /\ last.native.dst = "signal"
                     /\ last.native.src = signal
                     /\ last.outcome = "returned" => last.ret = "None"
           /\ last.native.dst = "signal" => last.req.op \in InPlaceOps
           /\ last.ret = "output" => last.req.op \in OutOfPlaceOps

\* fft3_inplace returns None after transforming the signal in place
C17_Witness ==
    /\ last.req.op = "fft3_inplace"
    /\ last.native.fn = "af_fft3_inplace"
    /\ last.native.dst = "signal"
    /\ last.outcome = "returned"
    /\ last.ret = "None"

\* The forward transforms with output lengths, by the number of axes
ForwardLengthOps(k) ==
    CASE k = 1 -> {"fft", "fft_r2c"}
      [] k = 2 -> {"fft2", "fft2_r2c"}
      [] k = 3 -> {"fft3", "fft3_r2c"}

ForwardInPlaceOps == {"fft_inplace", "fft2_inplace", "fft3_inplace"}

\* C18: every forward transform (fft, fft2, fft3, their in-place and their real
\* to complex variants) hands the native call the scale 1.0 when scale is
\* omitted and the given scale otherwise, and for every output length the
\* value 0 when it is omitted and the given length otherwise: an omitted
\* argument is never replaced by any other number.
C18_ForwardDefaults ==
    /\ \A k \in 1..3 :
           last.req.op \in ForwardLengthOps(k)
               => /\ Called
                  /\ last.native.scale =
                         IF last.req.scale = None THEN PyFloat(1, 1) ELSE float(last.req.scale)
                  /\ Len(last.native.lens) = k
                  /\ \A i \in 1..k :
                         last.native.lens[i] =
                             IF Override(i) = None THEN PyInt(0) ELSE Override(i)
    /\ last.req.op \in ForwardInPlaceOps
           => /\ Called
              /\ last.native.scale =
                     IF last.req.scale = None THEN PyFloat(1, 1) ELSE float(last.req.scale)
              /\ last.native.lens = <<>>

\* fft2_r2c with dim0 and scale omitted and dim1 given
C18_Witness ==
    /\ last.req.op = "fft2_r2c"
    /\ last.req.dim0 = None
    /\ last.req.dim1 = PyInt(MaxDim + 1)
    /\ last.req.scale = None
    /\ last.native.lens = <<PyInt(0), PyInt(MaxDim + 1)>>
    /\ last.native.scale = PyFloat(1, 1)
    /\ last.outcome = "returned"

\* pos is the position of the query point q on the grid that starts at x0 and
\* has its next point at x1: (q - x0) / (x1 - x0), a float in lowest terms;
\* a grid of step 0 gives no finite position
IsPosition(pos, q, x0, x1) ==
    /\ pos.fl
    /\ x1 # x0 => /\ pos.den > 0
                  /\ pos.num * (x1 - x0) = (q - x0) * pos.den
                  /\ \A g \in 2..pos.den : ~(pos.num % g = 0 /\ pos.den % g = 0)
    /\ x1 = x0 => pos.den = 0

\* The positions pos are those of the query points qs
ArePositions(pos, qs, x0, x1) ==
    /\ DOMAIN pos = DOMAIN qs
    /\ \A k \in DOMAIN qs : IsPosition(pos[k], qs[k], x0, x1)

\* C19: interp1d calls approx1 on the signal with every query point x turned
\* into (x - x_input[0]) / (x_input[1] - x_input[0]), so that on a grid of
\* non-zero step the i-th grid point gets position i; interp2d calls approx2
\* with pos0 computed that way from the first two entries of x_input along
\* axis 0 and pos1 from the first two entries of y_input along axis 1; both
\* forward method and off_grid unchanged.
C19_InterpPositions ==
    /\ last.req.op = "interp1d"
           => /\ last.native.fn = "af_approx1"
              /\ last.native.src = signal
              /\ Len(last.native.operands) = 1
              /\ ArePositions(last.native.operands[1], last.req.x_interpolated,
                              last.req.x_input[<<0, 0>>], last.req.x_input[<<1, 0>>])
              /\ last.native.args = <<PyInt(value(last.req.method)), float(last.req.off_grid)>>
    /\ last.req.op = "interp2d"
           => /\ last.native.fn = "af_approx2"
              /\ last.native.src = signal
              /\ Len(last.native.operands) = 2
              /\ ArePositions(last.native.operands[1], last.req.x_interpolated,
                              last.req.x_input[<<0, 0>>], last.req.x_input[<<1, 0>>])
              /\ ArePositions(last.native.operands[2], last.req.y_interpolated,
                              last.req.y_input[<<0, 0>>], last.req.y_input[<<0, 1>>])
              /\ last.native.args = <<PyInt(value(last.req.method)), float(last.req.off_grid)>>
    /\ \A i \in Coords :
           (/\ last.req.op \in {"interp1d", "interp2d"}
            /\ last.req.x_input[<<1, 0>>] # last.req.x_input[<<0, 0>>]
            /\ last.req.x_interpolated =
                   <<last.req.x_input[<<0, 0>>]
                       + i * (last.req.x_input[<<1, 0>>] - last.req.x_input[<<0, 0>>])>>)
               => last.native.operands[1] = <<PyFloat(i, 1)>>

\* interp2d at the second grid point of both axes of a grid whose x runs along
\* axis 0 only and whose y runs along axis 1 only
C19_Witness ==
    /\ last.req.op = "interp2d"
    /\ last.req.x_input = [c \in CoordIndex |-> IF c = <<1, 0>> THEN 1 ELSE 0]
    /\ last.req.y_input = [c \in CoordIndex |-> IF c = <<0, 1>> THEN 1 ELSE 0]
    /\ last.req.x_interpolated = <<1>>
    /\ last.req.y_interpolated = <<1>>
    /\ last.req.method = "NEAREST"
    /\ last.native.operands = << <<PyFloat(1, 1)>>, <<PyFloat(1, 1)>> >>
    /\ last.outcome = "returned"

Min(a, b) == IF a < b THEN a ELSE b

\* The rank a dispatcher selects for the signal
SelectedRank == Min(NDims, 3)

\* C20: dft, convolve and fft_convolve accept signals of 1 to 4 dimensions:
\* they always reach a native entry point, the one of rank
\* min(number of dimensions, 3), so a signal of 4 dimensions goes to the
\* entry point for three dimensions, and dft gives it the first
\* min(number of dimensions, 3) extents of the signal as transform lengths.
\* The call fails only when that native call reports a failure.
C20_DispatchTotal ==
    last.req.op \in {"dft", "convolve", "fft_convolve"}
        => /\ NDims \in 1..MaxRank
           /\ Called
           /\ last.native.src = signal
           /\ last.outcome = "returned" <=> last.status = "AF_SUCCESS"
           /\ last.outcome = "RuntimeError" <=> last.status = "AF_ERR"
           /\ last.req.op = "dft"
                  => /\ last.native.fn = ForwardEntry(SelectedRank)
                     /\ last.native.lens = [i \in 1..SelectedRank |-> PyInt(signal[i])]
           /\ last.req.op = "convolve" => last.native.fn = ConvEntry(SelectedRank)
           /\ last.req.op = "fft_convolve" => last.native.fn = FftConvEntry(SelectedRank)

\* fft_convolve of a signal of four dimensions
C20_Witness ==
    /\ last.req.op = "fft_convolve"
    /\ NDims = MaxRank
    /\ last.native.fn = "af_fft_convolve3"
    /\ last.outcome = "returned"

\* The call gives the output length 0 for one of the k axes it transforms
ZeroOverride(k) == \E i \in 1..k : Override(i) = PyInt(0)

\* C21: ifft, ifft2 and ifft3 called with scale omitted and the output length 0
\* given for one of the transformed axes raise ZeroDivisionError while they
\* compute the default scale: no native call is made and nothing is returned
\* or written.  The forward transforms fft, fft2 and fft3 given the same
\* length 0 make their native call and pass the 0 on.
C21_ZeroOverrideInverse ==
    \A k \in 1..3 :
        /\ (last.req.op = InverseOp(k) /\ last.req.scale = None /\ ZeroOverride(k))
               => /\ last.outcome = "ZeroDivisionError"
                  /\ last.trace = <<>>
                  /\ ~Called
                  /\ last.ret = ""
        /\ (last.req.op \in ForwardLengthOps(k) /\ last.req.scale = None /\ ZeroOverride(k))
               => /\ Called
                  /\ \A i \in 1..k : Override(i) = PyInt(0) => last.native.lens[i] = PyInt(0)

====
